---------------------------- MODULE Spec2Model ----------------------------
(***************************************************************************)
(* Model of package config of the verification server: NewWith (the        *)
(* bootstrap that decodes the secret-manager configuration, builds the     *)
(* secret store, decodes the main configuration with the secret resolver   *)
(* as mutator, strips the scheme of the Firebase database URL and          *)
(* validates) and Config.Validate / Config.CSRFKey.                        *)
(*                                                                         *)
(* A Go string is a sequence of one-character strings.  A time.Duration is *)
(* an integer number of seconds.  Environment keys and Go field names are  *)
(* TLA+ strings.                                                           *)
(*                                                                         *)
(* envconfig (the struct decoder) and package secrets (store, cache,       *)
(* resolver) are libraries; they are modelled from their description in    *)
(* the specification.  The fields of database.Config, declared elsewhere,  *)
(* are left out: Config.Database takes no part in any property below.      *)
(***************************************************************************)
EXTENDS Integers, Sequences, FiniteSets, TLC

(***************************************************************************)
(* Bounds of the explored inputs.                                          *)
(***************************************************************************)
\* number of environment keys that differ from the base environment
MaxOverrides == 2
\* number of fragments a FIREBASE_DATABASE_URL value is assembled from
MaxPieces == 3

(***************************************************************************)
(* Strings.                                                                *)
(***************************************************************************)
HasPrefix(s, p) ==
    /\ Len(s) >= Len(p)
    /\ SubSeq(s, 1, Len(p)) = p

MatchAt(s, i, sub) ==
    /\ i + Len(sub) - 1 <= Len(s)
    /\ SubSeq(s, i, i + Len(sub) - 1) = sub

Contains(s, sub) ==
    \E i \in 1..(Len(s) + 1) : MatchAt(s, i, sub)

TrimPrefix(s, p) ==
    IF HasPrefix(s, p) THEN SubSeq(s, Len(p) + 1, Len(s)) ELSE s

RECURSIVE ReplaceFrom(_, _, _, _)
ReplaceFrom(s, i, old, new) ==
    IF i > Len(s) THEN <<>>
    ELSE IF MatchAt(s, i, old)
         THEN new \o ReplaceFrom(s, i + Len(old), old, new)
         ELSE <<s[i]>> \o ReplaceFrom(s, i + 1, old, new)

\* strings.ReplaceAll for a non-empty old: one left-to-right pass over the
\* non-overlapping occurrences
ReplaceAll(s, old, new) == ReplaceFrom(s, 1, old, new)

\* the element of a one-element set; used to evaluate an intermediate result
\* once before it is passed on
Only(S) == CHOOSE x \in S : TRUE

RECURSIVE Repeat(_, _)
Repeat(c, n) == IF n <= 0 THEN <<>> ELSE <<c>> \o Repeat(c, n - 1)

(***************************************************************************)
(* Conversions of the struct decoder.                                      *)
(***************************************************************************)
Digits == <<"0", "1", "2", "3", "4", "5", "6", "7", "8", "9">>

IsDigit(c) == \E i \in 1..Len(Digits) : Digits[i] = c

DigitValue(c) == (CHOOSE i \in 1..Len(Digits) : Digits[i] = c) - 1

RECURSIVE DigitsEnd(_, _)
\* index of the first non-digit of s at or after i
DigitsEnd(s, i) ==
    IF i <= Len(s) /\ IsDigit(s[i]) THEN DigitsEnd(s, i + 1) ELSE i

RECURSIVE Decimal(_, _, _)
\* value of the digits s[i..j-1]
Decimal(s, i, j) ==
    IF j <= i THEN 0 ELSE Decimal(s, i, j - 1) * 10 + DigitValue(s[j - 1])

UnitSeconds(c) ==
    CASE c = "s" -> 1
      [] c = "m" -> 60
      [] c = "h" -> 3600
      [] OTHER -> 0

RECURSIVE ParseGroups(_, _, _)
\* the (digits unit)+ part of a duration, from index i, acc seconds so far
ParseGroups(s, i, acc) ==
    LET j == DigitsEnd(s, i) IN
    IF j = i \/ j > Len(s) \/ UnitSeconds(s[j]) = 0
    THEN [ok |-> FALSE, d |-> 0]
    ELSE LET sum == acc + Decimal(s, i, j) * UnitSeconds(s[j]) IN
         IF j = Len(s) THEN [ok |-> TRUE, d |-> sum]
         ELSE ParseGroups(s, j + 1, sum)

\* time.ParseDuration over the whole-second units: [-+]?(digits unit)+ | [-+]?0
ParseDuration(s) ==
    LET neg  == Len(s) > 0 /\ s[1] = "-"
        sgn  == Len(s) > 0 /\ s[1] \in {"-", "+"}
        body == IF sgn THEN SubSeq(s, 2, Len(s)) ELSE s
        r    == IF body = <<"0">> THEN [ok |-> TRUE, d |-> 0]
                ELSE ParseGroups(body, 1, 0)
    IN  IF r.ok /\ neg THEN [ok |-> TRUE, d |-> 0 - r.d] ELSE r

\* strconv.ParseInt(s, 0, 64) on decimal input
ParseInt(s) ==
    LET neg  == Len(s) > 0 /\ s[1] = "-"
        sgn  == Len(s) > 0 /\ s[1] \in {"-", "+"}
        body == IF sgn THEN SubSeq(s, 2, Len(s)) ELSE s
    IN  IF Len(body) = 0 \/ DigitsEnd(body, 1) <= Len(body)
        THEN [ok |-> FALSE, n |-> 0]
        ELSE [ok |-> TRUE,
              n  |-> IF neg THEN 0 - Decimal(body, 1, Len(body) + 1)
                            ELSE Decimal(body, 1, Len(body) + 1)]

\* strconv.ParseUint(s, 0, 64) on decimal input: no sign is accepted
ParseUint(s) ==
    IF Len(s) = 0 \/ DigitsEnd(s, 1) <= Len(s)
    THEN [ok |-> FALSE, n |-> 0]
    ELSE [ok |-> TRUE, n |-> Decimal(s, 1, Len(s) + 1)]

\* strconv.ParseBool
ParseBool(s) ==
    IF s \in {<<"1">>, <<"t">>, <<"T">>, <<"T", "R", "U", "E">>, <<"t", "r", "u", "e">>, <<"T", "r", "u", "e">>}
    THEN [ok |-> TRUE, b |-> TRUE]
    ELSE IF s \in {<<"0">>, <<"f">>, <<"F">>, <<"F", "A", "L", "S", "E">>, <<"f", "a", "l", "s", "e">>, <<"F", "a", "l", "s", "e">>}
         THEN [ok |-> TRUE, b |-> FALSE]
         ELSE [ok |-> FALSE, b |-> FALSE]

\* conversion of the (mutated) raw string to the field's type
Convert(type, s) ==
    CASE type = "duration" ->
            LET r == ParseDuration(s) IN [ok |-> r.ok, v |-> r.d]
      [] type = "int" ->
            LET r == ParseInt(s) IN [ok |-> r.ok, v |-> r.n]
      [] type = "uint" ->
            LET r == ParseUint(s) IN [ok |-> r.ok, v |-> r.n]
      [] type = "bool" ->
            LET r == ParseBool(s) IN [ok |-> r.ok, v |-> r.b]
      [] OTHER -> [ok |-> TRUE, v |-> s]

\* the zero value of a Go type
ZeroValue(type) ==
    CASE type \in {"duration", "int", "uint"} -> 0
      [] type = "bool" -> FALSE
      [] OTHER -> <<>>


(***************************************************************************)
(* Field metadata (the env tags).                                          *)
(***************************************************************************)
Required(name, key, type) ==
    [name |-> name, key |-> key, required |-> TRUE, hasDefault |-> FALSE,
     default |-> <<>>, type |-> type]

Default(name, key, type, lit) ==
    [name |-> name, key |-> key, required |-> FALSE, hasDefault |-> TRUE,
     default |-> lit, type |-> type]

Optional(name, key, type) ==
    [name |-> name, key |-> key, required |-> FALSE, hasDefault |-> FALSE,
     default |-> <<>>, type |-> type]

\* secrets.Config: the secret backend's type tag and the cache TTL
SecretsFields ==
    << Default("SecretManagerType", "SECRET_MANAGER", "string", <<"G", "O", "O", "G", "L", "E", "_", "S", "E", "C", "R", "E", "T", "_", "M", "A", "N", "A", "G", "E", "R">>),
       Default("SecretCacheTTL", "SECRET_CACHE_TTL", "duration", <<"5", "m">>) >>

FirebaseFields ==
    << Required("APIKey", "FIREBASE_API_KEY", "string"),
       Required("AuthDomain", "FIREBASE_AUTH_DOMAIN", "string"),
       Required("DatabaseURL", "FIREBASE_DATABASE_URL", "string"),
       Required("ProjectID", "FIREBASE_PROJECT_ID", "string"),
       Required("StorageBucket", "FIREBASE_STORAGE_BUCKET", "string"),
       Required("MessageSenderID", "FIREBASE_MESSAGE_SENDER_ID", "string"),
       Required("AppID", "FIREBASE_APP_ID", "string"),
       Required("MeasurementID", "FIREBASE_MEASUREMENT_ID", "string") >>

\* the tagged fields of Config after Firebase and Database, in declaration order
ConfigFields ==
    << Default("Port", "PORT", "int", <<"8", "0", "8", "0">>),
       Default("SessionCookieDuration", "SESSION_DURATION", "duration", <<"2", "4", "h">>),
       Default("RevokeCheckPeriod", "REVOKE_CHECK_DURATION", "duration", <<"5", "m">>),
       Required("CSRFAuthKey", "CSRF_AUTH_KEY", "string"),
       Default("ServerName", "SERVER_NAME", "string", <<"D", "i", "a", "g", "n", "o", "s", "i", "s", " ", "V", "e", "r", "i", "f", "i", "c", "a", "t", "i", "o", "n", " ", "S", "e", "r", "v", "e", "r">>),
       Default("CodeDuration", "CODE_DURATION", "duration", <<"1", "h">>),
       Default("CodeDigits", "CODE_DIGITS", "uint", <<"8">>),
       Default("CollisionRetryCount", "COLISSION_RETRY_COUNT", "uint", <<"6">>),
       Default("AllowedTestAge", "ALLOWRD_PAST_TEST_DAYS", "duration", <<"3", "3", "6", "h">>),
       Default("APIKeyCacheDuration", "API_KEY_CACHE_DURATION", "duration", <<"5", "m">>),
       Default("RateLimit", "RATE_LIMIT", "uint", <<"6", "0">>),
       Default("VerificationTokenDuration", "VERIFICATION_TOKEN_DURATION", "duration", <<"2", "4", "h">>),
       Required("TokenSigningKey", "TOKEN_SIGNING_KEY", "string"),
       Default("TokenSigningKeyID", "TOKEN_SIGNING_KEY_ID", "string", <<"v", "1">>),
       Default("TokenIssuer", "TOKEN_ISSUER", "string", <<"d", "i", "a", "g", "n", "o", "s", "i", "s", "-", "v", "e", "r", "i", "f", "i", "c", "a", "t", "i", "o", "n", "-", "e", "x", "a", "m", "p", "l", "e">>),
       Default("PublicKeyCacheDuration", "PUBLIC_KEY_CACHE_DURATION", "duration", <<"1", "5", "m">>),
       Required("CertificateSigningKey", "CERTIFICATE_SIGNING_KEY", "string"),
       Default("CertificateSigningKeyID", "CERTIFICATE_SIGNING_KEY_ID", "string", <<"v", "1">>),
       Default("CertificateIssuer", "CERTIFICATE_ISSUER", "string", <<"d", "i", "a", "g", "n", "o", "s", "i", "s", "-", "v", "e", "r", "i", "f", "i", "c", "a", "t", "i", "o", "n", "-", "e", "x", "a", "m", "p", "l", "e">>),
       Default("CertificateAudience", "CERTIFICATE_AUDIENCE", "string", <<"e", "x", "p", "o", "s", "u", "r", "e", "-", "n", "o", "t", "i", "f", "i", "c", "a", "t", "i", "o", "n", "s", "-", "s", "e", "r", "v", "e", "r">>),
       Default("CertificateDuration", "CERTIFICATE_DURATION", "duration", <<"1", "5", "m">>),
       Default("CleanupPeriod", "CLEANUP_PERIOD", "duration", <<"1", "5", "m">>),
       Default("DisabledUserMaxAge", "DIABLED_USER_MAX_AGE", "duration", <<"3", "3", "6", "h">>),
       Default("VerificationCodeMaxAge", "VERIFICATION_CODE_MAX_AGE", "duration", <<"2", "4", "h">>),
       Default("VerificationTokenMaxAge", "VERIFICATION_TOKEN_MAX_AGE", "duration", <<"2", "4", "h">>),
       Default("AssetsPath", "ASSETS_PATH", "string", <<".", "/", "c", "m", "d", "/", "s", "e", "r", "v", "e", "r", "/", "a", "s", "s", "e", "t", "s">>),
       Optional("DevMode", "DEV_MODE", "bool") >>

Range(seq) == {seq[i] : i \in 1..Len(seq)}

\* every environment key a decode looks up
AllKeys == {f.key : f \in Range(SecretsFields) \cup Range(FirebaseFields) \cup Range(ConfigFields)}

FieldType(fields, name) == (CHOOSE f \in Range(fields) : f.name = name).type

\* a struct value with every field at its zero value
ZeroStruct(fields) ==
    [n \in {f.name : f \in Range(fields)} |-> ZeroValue(FieldType(fields, n))]

\* var config Config
ZeroConfig == [Firebase |-> ZeroStruct(FirebaseFields)] @@ ZeroStruct(ConfigFields)

\* the Go fields of Config that are of type time.Duration
DurationFields == {f.name : f \in {g \in Range(ConfigFields) : g.type = "duration"}}

(***************************************************************************)
(* Errors.  A nil error is NoError.                                        *)
(***************************************************************************)
NoError == [kind |-> "nil", stage |-> "", name |-> "", d |-> 0]

Error(kind, stage, name) == [kind |-> kind, stage |-> stage, name |-> name, d |-> 0]

(***************************************************************************)
(* Secret store, cache wrapper and secret resolver.                        *)
(* A store state st is [calls, cache, now]: the locators the backend was   *)
(* asked for (in order), the cache entries and the clock in seconds.       *)
(***************************************************************************)
SecretScheme == <<"s", "e", "c", "r", "e", "t", ":", "/", "/">>

Https == <<"h", "t", "t", "p", "s", ":", "/", "/">>

\* the backend type tags SecretManagerFor knows
KnownBackends ==
    {<<"A", "W", "S", "_", "S", "E", "C", "R", "E", "T", "S", "_", "M", "A", "N", "A", "G", "E", "R">>, <<"A", "Z", "U", "R", "E", "_", "K", "E", "Y", "_", "V", "A", "U", "L", "T">>, <<"G", "O", "O", "G", "L", "E", "_", "S", "E", "C", "R", "E", "T", "_", "M", "A", "N", "A", "G", "E", "R">>,
     <<"H", "A", "S", "H", "I", "C", "O", "R", "P", "_", "V", "A", "U", "L", "T">>}

\* the stub backend: plaintext abc123 for projects/p/secrets/s, nothing else
BackendGet(loc) ==
    IF loc = <<"p", "r", "o", "j", "e", "c", "t", "s", "/", "p", "/", "s", "e", "c", "r", "e", "t", "s", "/", "s">>
    THEN [ok |-> TRUE, v |-> <<"a", "b", "c", "1", "2", "3">>]
    ELSE [ok |-> FALSE, v |-> <<>>]

EmptyStore == [calls |-> <<>>, cache |-> {}, now |-> 0]

\* one call of the backend, which takes lat seconds
BackendCall(st, loc, lat) ==
    [r  |-> BackendGet(loc),
     st |-> [st EXCEPT !.calls = Append(@, loc), !.now = @ + lat]]

\* Cacher.GetSecretValue: an unexpired entry answers; otherwise the wrapped
\* store is called and its result stored with expiry = now + ttl
CacheGet(sm, st, loc, lat) ==
    LET hits == {e \in st.cache : e.ref = loc /\ st.now < e.expiry} IN
    IF hits # {}
    THEN [r |-> [ok |-> TRUE, v |-> (CHOOSE e \in hits : TRUE).value], st |-> st]
    ELSE Only({IF ~c.r.ok THEN c
               ELSE [r  |-> c.r,
                     st |-> [c.st EXCEPT !.cache =
                                {e \in @ : e.ref # loc} \cup
                                {[ref |-> loc, value |-> c.r.v,
                                  expiry |-> c.st.now + sm.ttl]}]] :
                  c \in {BackendCall(st, loc, lat)}})

\* sm.GetSecretValue on the store sm (cached or not)
StoreGet(sm, st, loc, lat) ==
    IF sm.cached THEN CacheGet(sm, st, loc, lat) ELSE BackendCall(st, loc, lat)

\* the mutator secrets.Resolver(sm, ...): a secret://locator value becomes
\* the store's plaintext, any other value passes through
Resolve(fn, st, key, val, lat) ==
    IF ~HasPrefix(val, SecretScheme)
    THEN [ok |-> TRUE, v |-> val, st |-> st, err |-> NoError]
    ELSE Only({IF g.r.ok
               THEN [ok |-> TRUE, v |-> g.r.v, st |-> g.st, err |-> NoError]
               ELSE [ok |-> FALSE, v |-> val, st |-> g.st,
                     err |-> Error("SecretResolutionError", "decode", key)] :
                  g \in {StoreGet(fn.sm, st, TrimPrefix(val, SecretScheme), lat)}})

RECURSIVE ApplyMutators(_, _, _, _, _, _)
\* the raw value passed through the mutators fns[j..] in registration order
ApplyMutators(fns, j, st, key, val, lat) ==
    IF j > Len(fns) THEN [ok |-> TRUE, v |-> val, st |-> st, err |-> NoError]
    ELSE Only({IF ~m.ok THEN m ELSE ApplyMutators(fns, j + 1, m.st, key, m.v, lat) :
                  m \in {Resolve(fns[j], st, key, val, lat)}})

(***************************************************************************)
(* Struct decoder (envconfig.ProcessWith).                                 *)
(* A Lookuper l maps every key to [present, value].                        *)
(***************************************************************************)
\* one field: lookup, default / required, mutators, conversion
DecodeField(f, l, fns, acc, lat) ==
    LET look == l[f.key] IN
    IF ~look.present /\ f.required
    THEN [acc EXCEPT !.ok = FALSE,
                     !.err = Error("MissingRequiredField", "decode", f.key)]
    ELSE IF ~look.present /\ ~f.hasDefault THEN acc
    ELSE LET raw == IF look.present THEN look.value ELSE f.default IN
         Only({IF ~m.ok
               THEN [acc EXCEPT !.ok = FALSE, !.err = m.err, !.st = m.st]
               ELSE Only({IF ~cv.ok
                          THEN [acc EXCEPT !.ok = FALSE, !.st = m.st,
                                           !.err = Error("TypeConversionError", "decode", f.key)]
                          ELSE [acc EXCEPT !.st = m.st, !.target[f.name] = cv.v] :
                             cv \in {Convert(f.type, m.v)}}) :
                  m \in {ApplyMutators(fns, 1, acc.st, f.key, raw, lat)}})

RECURSIVE DecodeFrom(_, _, _, _, _, _)
\* the fields from index i on, in declaration order, stopping at the first error
DecodeFrom(fields, i, l, fns, acc, lat) ==
    IF i > Len(fields) \/ ~acc.ok THEN acc
    ELSE Only({DecodeFrom(fields, i + 1, l, fns, a, lat) :
                  a \in {DecodeField(fields[i], l, fns, acc, lat)}})

DecodeStruct(fields, l, fns, st, lat) ==
    DecodeFrom(fields, 1, l, fns,
               [ok |-> TRUE, target |-> ZeroStruct(fields), err |-> NoError, st |-> st],
               lat)

\* envconfig.ProcessWith(ctx, &smConfig, l)
ProcessSecretsConfig(l, fns, st, lat) == DecodeStruct(SecretsFields, l, fns, st, lat)

\* envconfig.ProcessWith(ctx, &config, l, mutatorFuncs...): the nested
\* Firebase struct first, then the fields of Config
ProcessConfig(l, fns, st, lat) ==
    Only({IF ~fb.ok
          THEN [fb EXCEPT !.target = [ZeroConfig EXCEPT !.Firebase = fb.target]]
          ELSE Only({[c EXCEPT !.target = [Firebase |-> fb.target] @@ c.target] :
                        c \in {DecodeStruct(ConfigFields, l, fns, fb.st, lat)}}) :
             fb \in {DecodeStruct(FirebaseFields, l, fns, st, lat)}})

(***************************************************************************)
(* base64util.DecodeString and Config.CSRFKey.                             *)
(***************************************************************************)
Base64Alphabet ==
    <<"A", "B", "C", "D", "E", "F", "G", "H", "I", "J", "K", "L", "M", "N", "O", "P", "Q", "R", "S", "T", "U", "V", "W", "X", "Y", "Z", "a", "b", "c", "d", "e", "f", "g", "h", "i", "j", "k", "l", "m", "n", "o", "p", "q", "r", "s", "t", "u", "v", "w", "x", "y", "z", "0", "1", "2", "3", "4", "5", "6", "7", "8", "9", "+", "/">>

IsBase64(c) == \E i \in 1..Len(Base64Alphabet) : Base64Alphabet[i] = c

Base64Value(c) == (CHOOSE i \in 1..Len(Base64Alphabet) : Base64Alphabet[i] = c) - 1

RECURSIVE Base64Bytes(_, _)
\* the bytes of the unpadded base64 text s from index i on
Base64Bytes(s, i) ==
    LET n  == Len(s) - i + 1
        v1 == Base64Value(s[i])
        v2 == Base64Value(s[i + 1])
        v3 == Base64Value(s[i + 2])
        v4 == Base64Value(s[i + 3])
        b1 == v1 * 4 + v2 \div 16
        b2 == (v2 % 16) * 16 + v3 \div 4
        b3 == (v3 % 4) * 64 + v4
    IN  IF n <= 1 THEN <<>>
        ELSE IF n = 2 THEN <<b1>>
        ELSE IF n = 3 THEN <<b1, b2>>
        ELSE <<b1, b2, b3>> \o Base64Bytes(s, i + 4)

\* base64.RawStdEncoding.DecodeString
DecodeRaw(s) ==
    IF (\E i \in 1..Len(s) : ~IsBase64(s[i])) \/ Len(s) % 4 = 1
    THEN [ok |-> FALSE, bytes |-> <<>>]
    ELSE [ok |-> TRUE, bytes |-> Base64Bytes(s, 1)]

\* base64.StdEncoding.DecodeString: whole quanta, = only as the last one or two
DecodeStd(s) ==
    LET n   == Len(s)
        pad == IF n >= 2 /\ s[n] = "=" /\ s[n - 1] = "=" THEN 2
               ELSE IF n >= 1 /\ s[n] = "=" THEN 1 ELSE 0
    IN  IF n % 4 # 0 THEN [ok |-> FALSE, bytes |-> <<>>]
        ELSE DecodeRaw(SubSeq(s, 1, n - pad))

\* base64util.DecodeString: standard encoding, falling back to the raw one
DecodeString(s) ==
    LET r == DecodeStd(s) IN IF r.ok THEN r ELSE DecodeRaw(s)

CSRFKey(c) ==
    LET r == DecodeString(c.CSRFAuthKey) IN
    IF ~r.ok
    THEN [key |-> <<>>, err |-> Error("error decoding CSRF_AUTH_KEY", "CSRFKey", "CSRF_AUTH_KEY")]
    ELSE IF Len(r.bytes) # 32
    THEN [key |-> <<>>, err |-> Error("CSRF_AUTH_KEY is not 32 bytes", "CSRFKey", "CSRF_AUTH_KEY")]
    ELSE [key |-> r.bytes, err |-> NoError]

(***************************************************************************)
(* Config.Validate.                                                        *)
(***************************************************************************)
checkPositiveDuration(d, name) ==
    IF d < 0
    THEN [kind |-> "must be a positive duration", stage |-> "validate",
          name |-> name, d |-> d]
    ELSE NoError

\* the fields slice of Validate
ValidateFields(c) ==
    << [Var |-> c.SessionCookieDuration, Name |-> "SESSION_DUATION"],
       [Var |-> c.RevokeCheckPeriod, Name |-> "REVOKE_CHECK_DURATION"],
       [Var |-> c.CodeDuration, Name |-> "CODE_DURATION"],
       [Var |-> c.AllowedTestAge, Name |-> "ALLOWED_PAST_TEST_DAYS"],
       [Var |-> c.APIKeyCacheDuration, Name |-> "API_KEY_CACHE_DURATION"],
       [Var |-> c.VerificationCodeMaxAge, Name |-> "VERIFICATION_TOKEN_DURATION"],
       [Var |-> c.PublicKeyCacheDuration, Name |-> "PUBLIC_KEY_CACHE_DURATION"],
       [Var |-> c.CleanupPeriod, Name |-> "CLEANUP_PERIOD"],
       [Var |-> c.DisabledUserMaxAge, Name |-> "DISABLED_USER_MAX_AGE"],
       [Var |-> c.VerificationCodeMaxAge, Name |-> "VERIFICATION_CODE_MAX_AGE"],
       [Var |-> c.VerificationTokenMaxAge, Name |-> "VERIFICATION_TOKEN_MAX_AGE"] >>

RECURSIVE ValidateFrom_Last(_, _)
\* a Validate loop that keeps checking after a violation and reports the last one
ValidateFrom_Last(fields, i) ==
    IF i > Len(fields) THEN [err |-> NoError, checks |-> Len(fields)]
    ELSE LET e    == checkPositiveDuration(fields[i].Var, fields[i].Name)
             rest == ValidateFrom_Last(fields, i + 1)
         IN  IF rest.err # NoError \/ e = NoError THEN rest
             ELSE [err |-> e, checks |-> Len(fields)]

RECURSIVE ValidateFrom(_, _)
\* the loop of Validate from entry i on; checks counts the entries examined
ValidateFrom(fields, i) ==
    IF i > Len(fields) THEN [err |-> NoError, checks |-> Len(fields)]
    ELSE LET e == checkPositiveDuration(fields[i].Var, fields[i].Name) IN
         IF e # NoError THEN [err |-> e, checks |-> i]
         ELSE ValidateFrom(fields, i + 1)

\* Validate reads the receiver and never writes it: c is the receiver after
\* the call
Validate(c) ==
    Only({[err |-> r.err, checks |-> r.checks, c |-> c] :
             r \in {ValidateFrom(ValidateFields(c), 1)}})

(***************************************************************************)
(* State of one NewWith call, and of a direct call of Validate.            *)
(***************************************************************************)
VARIABLES
    l,            \* the Lookuper given to NewWith
    latency,      \* seconds one call of the secret backend takes
    pc,           \* position in NewWith (or in the direct Validate call)
    smConfig,     \* var smConfig secrets.Config
    sm,           \* the secret store sm; made is FALSE while it is nil
    mutatorFuncs, \* var mutatorFuncs []envconfig.MutatorFunc
    config,       \* var config Config (the receiver of a direct Validate call)
    store,        \* state of the secret backend and of the cache
    result,       \* what NewWith returned: (nil, err) or (&config, nil)
    stages,       \* the stages executed so far, in order
    decodes,      \* the ProcessWith calls so far: target, lookuper, mutators
    validated     \* the last Validate call: receiver before, error, entries examined

vars == <<l, latency, pc, smConfig, sm, mutatorFuncs, config, store, result,
          stages, decodes, validated>>

NoStore == [made |-> FALSE, type |-> <<>>, cached |-> FALSE, ttl |-> 0]

NotReturned == [returned |-> FALSE, nilCfg |-> TRUE, cfg |-> ZeroConfig, err |-> NoError]

NotValidated == [called |-> FALSE, before |-> ZeroConfig, err |-> NoError, checks |-> 0]

Stage(name, ok) == [name |-> name, ok |-> ok]

\* return nil, err
ReturnError(e) == [returned |-> TRUE, nilCfg |-> TRUE, cfg |-> ZeroConfig, err |-> e]

\* return &config, nil
ReturnConfig(c) == [returned |-> TRUE, nilCfg |-> FALSE, cfg |-> c, err |-> NoError]

(***************************************************************************)
(* Inputs.                                                                 *)
(***************************************************************************)
Present(v) == [present |-> TRUE, value |-> v]

Absent == [present |-> FALSE, value |-> <<>>]

EmptyEnv == [k \in AllKeys |-> Absent]

\* exactly CODE_DURATION and TOKEN_SIGNING_KEY
ExactEnv ==
    [EmptyEnv EXCEPT !["CODE_DURATION"] = Present(<<"2", "h">>),
                     !["TOKEN_SIGNING_KEY"] = Present(<<"s", "e", "c", "r", "e", "t", ":", "/", "/", "p", "r", "o", "j", "e", "c", "t", "s", "/", "p", "/", "s", "e", "c", "r", "e", "t", "s", "/", "s">>)]

\* ExactEnv and a value for every other required key
BaseEnv ==
    [ExactEnv EXCEPT !["CSRF_AUTH_KEY"] = Present(Repeat("A", 43) \o <<"=">>),
                     !["CERTIFICATE_SIGNING_KEY"] = Present(<<"s", "e", "c", "r", "e", "t", ":", "/", "/", "p", "r", "o", "j", "e", "c", "t", "s", "/", "p", "/", "s", "e", "c", "r", "e", "t", "s", "/", "s">>),
                     !["FIREBASE_API_KEY"] = Present(<<"k">>),
                     !["FIREBASE_AUTH_DOMAIN"] = Present(<<"d", ".", "i", "o">>),
                     !["FIREBASE_DATABASE_URL"] = Present(<<"h", "t", "t", "p", "s", ":", "/", "/", "h", ".", "i", "o">>),
                     !["FIREBASE_PROJECT_ID"] = Present(<<"p">>),
                     !["FIREBASE_STORAGE_BUCKET"] = Present(<<"b">>),
                     !["FIREBASE_MESSAGE_SENDER_ID"] = Present(<<"1">>),
                     !["FIREBASE_APP_ID"] = Present(<<"a">>),
                     !["FIREBASE_MEASUREMENT_ID"] = Present(<<"m">>)]

Set(k, v) == [key |-> k, to |-> Present(v)]

Unset(k) == [key |-> k, to |-> Absent]

DurationKeys == {f.key : f \in {g \in Range(ConfigFields) : g.type = "duration"}}

\* the single changes applied to BaseEnv
Overrides ==
    { Set("SECRET_MANAGER", <<"B", "O", "G", "U", "S">>),
      Set("SECRET_MANAGER", <<"s", "e", "c", "r", "e", "t", ":", "/", "/", "p", "r", "o", "j", "e", "c", "t", "s", "/", "p", "/", "s", "e", "c", "r", "e", "t", "s", "/", "s">>),
      Set("SECRET_CACHE_TTL", <<"0">>),
      Set("SECRET_CACHE_TTL", <<"-", "1", "m">>),
      Set("SECRET_CACHE_TTL", <<"1", "s">>),
      Set("SECRET_CACHE_TTL", <<"s", "o", "o", "n">>),
      Unset("TOKEN_SIGNING_KEY"),
      Set("TOKEN_SIGNING_KEY", <<"k", "e", "y">>),
      Set("TOKEN_SIGNING_KEY", <<"s", "e", "c", "r", "e", "t", ":", "/", "/", "t">>),
      Unset("CERTIFICATE_SIGNING_KEY"),
      Set("CERTIFICATE_SIGNING_KEY", <<"k", "e", "y">>),
      Unset("CSRF_AUTH_KEY"),
      Set("CSRF_AUTH_KEY", <<"A", "A", "A", "A">>),
      Set("CSRF_AUTH_KEY", <<"!">>),
      Set("CSRF_AUTH_KEY", Repeat("A", 43)),
      Unset("CODE_DURATION"),
      Set("CODE_DURATION", <<"0">>),
      Set("CODE_DURATION", <<"1", "h", "3", "0", "m">>),
      Set("CODE_DURATION", <<"2">>),
      Unset("FIREBASE_DATABASE_URL"),
      Set("FIREBASE_DATABASE_URL", <<"h", ".", "i", "o">>),
      Set("FIREBASE_DATABASE_URL", <<"h", "t", "t", "p", "h", "t", "t", "p", "s", ":", "/", "/", "s", ":", "/", "/", "h", ".", "i", "o">>),
      Unset("FIREBASE_API_KEY"),
      Unset("FIREBASE_MEASUREMENT_ID"),
      Set("PORT", <<"8", "0">>),
      Set("PORT", <<"h", "t", "t", "p">>),
      Set("CODE_DIGITS", <<"-", "6">>),
      Set("DEV_MODE", <<"t", "r", "u", "e">>),
      Set("DEV_MODE", <<"y", "e", "s">>) }
    \cup {Set(k, <<"-", "1", "h">>) : k \in DurationKeys}

RECURSIVE EnvsWith(_)
\* BaseEnv with at most n overrides applied
EnvsWith(n) ==
    IF n = 0 THEN {BaseEnv}
    ELSE LET E == EnvsWith(n - 1) IN
         E \cup {[e EXCEPT ![o.key] = o.to] : e \in E, o \in Overrides}

Lookupers == {ExactEnv, EmptyEnv} \cup EnvsWith(MaxOverrides)

Latencies == {0, 2}

(***************************************************************************)
(* NewWith, stage by stage.                                                *)
(***************************************************************************)
Init ==
    /\ l \in Lookupers
    /\ latency \in Latencies
    /\ pc = "start"
    /\ smConfig = ZeroStruct(SecretsFields)
    /\ sm = NoStore
    /\ mutatorFuncs = <<>>
    /\ config = ZeroConfig
    /\ store = EmptyStore
    /\ result = NotReturned
    /\ stages = <<>>
    /\ decodes = <<>>
    /\ validated = NotValidated

\* a cache test that also wraps for a zero TTL
CacheEnabled_NonNegative(ttl) == ttl >= 0

\* if ttl := smConfig.SecretCacheTTL; ttl > 0
CacheEnabled(ttl) == ttl > 0

\* envconfig.ProcessWith(ctx, &smConfig, l): no mutator is passed
DecodeMeta ==
    /\ pc = "start"
    /\ \E r \in {ProcessSecretsConfig(l, <<>>, store, latency)} :
       /\ smConfig' = r.target
       /\ store' = r.st
       /\ decodes' = Append(decodes, [target |-> "smConfig", l |-> l, fns |-> <<>>])
       /\ IF r.ok
          THEN pc' = "construct" /\ result' = result
          ELSE /\ pc' = "done"
               /\ result' = ReturnError([r.err EXCEPT !.stage = "unable to process secret configuration"])
       /\ stages' = Append(stages, Stage("decode(meta)", r.ok))
    /\ UNCHANGED <<l, latency, sm, mutatorFuncs, config, validated>>

\* secrets.SecretManagerFor(ctx, smConfig.SecretManagerType): an unknown tag
\* fails; a known backend may fail to connect
ConstructSecretStore ==
    /\ pc = "construct"
    /\ \E connected \in BOOLEAN :
          LET made == smConfig.SecretManagerType \in KnownBackends /\ connected IN
          /\ IF made
             THEN /\ sm' = [NoStore EXCEPT !.made = TRUE, !.type = smConfig.SecretManagerType]
                  /\ pc' = IF CacheEnabled(smConfig.SecretCacheTTL) THEN "wrap" ELSE "build"
                  /\ result' = result
             ELSE /\ sm' = sm
                  /\ pc' = "done"
                  /\ result' = ReturnError(
                        Error(IF smConfig.SecretManagerType \in KnownBackends
                              THEN "connect" ELSE "UnsupportedBackend",
                              "unable to connect to secret manager", "SECRET_MANAGER"))
          /\ stages' = Append(stages, Stage("construct(secretStore)", made))
    /\ UNCHANGED <<l, latency, smConfig, mutatorFuncs, config, store, decodes, validated>>

\* sm, err = secrets.WrapCacher(ctx, sm, ttl)
WrapCache ==
    /\ pc = "wrap"
    /\ \E wrapped \in BOOLEAN :
          /\ IF wrapped
             THEN /\ sm' = [sm EXCEPT !.cached = TRUE, !.ttl = smConfig.SecretCacheTTL]
                  /\ pc' = "build"
                  /\ result' = result
             ELSE /\ sm' = sm
                  /\ pc' = "done"
                  /\ result' = ReturnError(
                        Error("cache", "unable to create secret manager cache", "SECRET_CACHE_TTL"))
          /\ stages' = Append(stages, Stage("wrap(cache)", wrapped))
    /\ UNCHANGED <<l, latency, smConfig, mutatorFuncs, config, store, decodes, validated>>

\* a resolver bound to the store as it was before the cache wrapped it
BuildMutators_Unwrapped ==
    /\ pc = "build"
    /\ mutatorFuncs' = Append(mutatorFuncs, [kind |-> "Resolver", sm |-> [sm EXCEPT !.cached = FALSE]])
    /\ pc' = "decode"
    /\ stages' = Append(stages, Stage("build(mutators)", TRUE))
    /\ UNCHANGED <<l, latency, smConfig, sm, config, store, result, decodes, validated>>

\* mutatorFuncs = append(mutatorFuncs, secrets.Resolver(sm, &smConfig))
BuildMutators ==
    /\ pc = "build"
    /\ mutatorFuncs' = Append(mutatorFuncs, [kind |-> "Resolver", sm |-> sm])
    /\ pc' = "decode"
    /\ stages' = Append(stages, Stage("build(mutators)", TRUE))
    /\ UNCHANGED <<l, latency, smConfig, sm, config, store, result, decodes, validated>>

\* a main decode whose error is dropped: NewWith goes on to postprocess
DecodeMain_NoShortCircuit ==
    /\ pc = "decode"
    /\ \E r \in {ProcessConfig(l, mutatorFuncs, store, latency)} :
       /\ config' = r.target
       /\ store' = r.st
       /\ decodes' = Append(decodes, [target |-> "config", l |-> l, fns |-> mutatorFuncs])
       /\ pc' = "postprocess"
       /\ result' = result
       /\ stages' = Append(stages, Stage("decode(main)", r.ok))
    /\ UNCHANGED <<l, latency, smConfig, sm, mutatorFuncs, validated>>

\* a main decode that is not given the mutators
DecodeMain_NoMutators ==
    /\ pc = "decode"
    /\ \E r \in {ProcessConfig(l, <<>>, store, latency)} :
       /\ config' = r.target
       /\ store' = r.st
       /\ decodes' = Append(decodes, [target |-> "config", l |-> l, fns |-> <<>>])
       /\ IF r.ok
          THEN pc' = "postprocess" /\ result' = result
          ELSE pc' = "done" /\ result' = ReturnError(r.err)
       /\ stages' = Append(stages, Stage("decode(main)", r.ok))
    /\ UNCHANGED <<l, latency, smConfig, sm, mutatorFuncs, validated>>

\* envconfig.ProcessWith(ctx, &config, l, mutatorFuncs...)
DecodeMain ==
    /\ pc = "decode"
    /\ \E r \in {ProcessConfig(l, mutatorFuncs, store, latency)} :
       /\ config' = r.target
       /\ store' = r.st
       /\ decodes' = Append(decodes, [target |-> "config", l |-> l, fns |-> mutatorFuncs])
       /\ IF r.ok
          THEN pc' = "postprocess" /\ result' = result
          ELSE pc' = "done" /\ result' = ReturnError(r.err)
       /\ stages' = Append(stages, Stage("decode(main)", r.ok))
    /\ UNCHANGED <<l, latency, smConfig, sm, mutatorFuncs, validated>>

\* a postprocess that strips only a leading "https://"
Postprocess_TrimPrefix ==
    /\ pc = "postprocess"
    /\ config' = [config EXCEPT !.Firebase.DatabaseURL = TrimPrefix(@, Https)]
    /\ pc' = "validate"
    /\ stages' = Append(stages, Stage("postprocess", TRUE))
    /\ UNCHANGED <<l, latency, smConfig, sm, mutatorFuncs, store, result, decodes, validated>>

\* config.Firebase.DatabaseURL = strings.ReplaceAll(..., "https://", "")
Postprocess ==
    /\ pc = "postprocess"
    /\ config' = [config EXCEPT !.Firebase.DatabaseURL = ReplaceAll(@, Https, <<>>)]
    /\ pc' = "validate"
    /\ stages' = Append(stages, Stage("postprocess", TRUE))
    /\ UNCHANGED <<l, latency, smConfig, sm, mutatorFuncs, store, result, decodes, validated>>

\* a return that hands out &config although Validate failed
ValidateAndReturn_Partial ==
    /\ pc = "validate"
    /\ \E v \in {Validate(config)} :
       /\ validated' = [called |-> TRUE, before |-> config, err |-> v.err, checks |-> v.checks]
       /\ config' = v.c
       /\ result' = [ReturnConfig(v.c) EXCEPT !.err = v.err]
       /\ stages' = Append(stages, Stage("validate", v.err = NoError))
    /\ pc' = "done"
    /\ UNCHANGED <<l, latency, smConfig, sm, mutatorFuncs, store, decodes>>

\* if err := config.Validate(); err != nil { return nil, err }; return &config, nil
ValidateAndReturn ==
    /\ pc = "validate"
    /\ \E v \in {Validate(config)} :
       /\ validated' = [called |-> TRUE, before |-> config, err |-> v.err, checks |-> v.checks]
       /\ config' = v.c
       /\ result' = IF v.err # NoError THEN ReturnError(v.err) ELSE ReturnConfig(v.c)
       /\ stages' = Append(stages, Stage("validate", v.err = NoError))
    /\ pc' = "done"
    /\ UNCHANGED <<l, latency, smConfig, sm, mutatorFuncs, store, decodes>>

Next ==
    \/ DecodeMeta
    \/ ConstructSecretStore
    \/ WrapCache
    \/ BuildMutators
    \/ DecodeMain
    \/ Postprocess
    \/ ValidateAndReturn

Spec == Init /\ [][Next]_vars

(***************************************************************************)
(* A direct call of Config.Validate on an arbitrary Config.                *)
(***************************************************************************)
DurationValues == {-1, 0, 1}

ValidateInputs == {d @@ ZeroConfig : d \in [DurationFields -> DurationValues]}

InitValidate ==
    /\ l = EmptyEnv
    /\ latency = 0
    /\ pc = "call"
    /\ smConfig = ZeroStruct(SecretsFields)
    /\ sm = NoStore
    /\ mutatorFuncs = <<>>
    /\ config \in ValidateInputs
    /\ store = EmptyStore
    /\ result = NotReturned
    /\ stages = <<>>
    /\ decodes = <<>>
    /\ validated = NotValidated

\* err := c.Validate()
CallValidate ==
    /\ pc = "call"
    /\ \E v \in {Validate(config)} :
       /\ validated' = [called |-> TRUE, before |-> config, err |-> v.err, checks |-> v.checks]
       /\ config' = v.c
    /\ pc' = "returned"
    /\ UNCHANGED <<l, latency, smConfig, sm, mutatorFuncs, store, result, stages, decodes>>

NextValidate == CallValidate

SpecValidate == InitValidate /\ [][NextValidate]_vars

(***************************************************************************)
(* NewWith over the values of FIREBASE_DATABASE_URL.                       *)
(***************************************************************************)
URLPieces == {Https, <<"h", "t", "t", "p">>, <<"s", ":", "/", "/">>, <<"h", ".", "i", "o">>}

RECURSIVE Concats(_)
\* the texts made of at most n pieces
Concats(n) ==
    IF n = 0 THEN {<<>>}
    ELSE LET C == Concats(n - 1) IN C \cup {c \o p : c \in C, p \in URLPieces}

URLInputs == Concats(MaxPieces)

InitURL ==
    /\ l \in {[BaseEnv EXCEPT !["FIREBASE_DATABASE_URL"] = Present(u)] : u \in URLInputs}
    /\ latency \in Latencies
    /\ pc = "start"
    /\ smConfig = ZeroStruct(SecretsFields)
    /\ sm = NoStore
    /\ mutatorFuncs = <<>>
    /\ config = ZeroConfig
    /\ store = EmptyStore
    /\ result = NotReturned
    /\ stages = <<>>
    /\ decodes = <<>>
    /\ validated = NotValidated

SpecURL == InitURL /\ [][Next]_vars

(***************************************************************************)
(* Properties.                                                             *)
(***************************************************************************)
StageNames == [i \in 1..Len(stages) |-> stages[i].name]

Ran(name) == \E i \in 1..Len(stages) : stages[i].name = name

Succeeded(name) == \E i \in 1..Len(stages) : stages[i].name = name /\ stages[i].ok

IsPrefix(s, t) == Len(s) <= Len(t) /\ SubSeq(t, 1, Len(s)) = s

\* the stage order of section 4.2, with or without wrap(cache)
FullRun(withCache) ==
    IF withCache
    THEN <<"decode(meta)", "construct(secretStore)", "wrap(cache)", "build(mutators)",
           "decode(main)", "postprocess", "validate">>
    ELSE <<"decode(meta)", "construct(secretStore)", "build(mutators)",
           "decode(main)", "postprocess", "validate">>

\* C1 (as claimed): Validate returns an error exactly when some duration-typed
\* field of Config is negative: every negative duration field is rejected
\* whatever the other fields hold, and a Config whose duration fields are all
\* zero or positive is accepted.
C1_ValidateRejectsEveryNegativeDuration ==
    validated.called =>
       ((\E f \in DurationFields : validated.before[f] < 0) <=> validated.err # NoError)

\* C2 (as claimed): when Validate rejects, the name in the error is the env key
\* of a duration field of Config, and that field holds a negative value.
C2_ErrorNamesANegativeField ==
    validated.called /\ validated.err # NoError =>
       \E f \in Range(ConfigFields) :
          /\ f.type = "duration"
          /\ f.key = validated.err.name
          /\ validated.before[f.name] < 0

\* C3: NewWith has no partial success.  It has returned exactly when it is
\* done; it returns a non-nil config exactly when every stage of the full run
\* ran and succeeded, and then with a nil error and the validated config; in
\* every other case it returns a nil config and a non-nil error.
C3_NoPartialSuccess ==
    /\ result.returned <=> pc = "done"
    /\ result.returned =>
          /\ ~result.nilCfg <=>
                /\ StageNames = FullRun(smConfig.SecretCacheTTL > 0)
                /\ \A i \in 1..Len(stages) : stages[i].ok
          /\ result.nilCfg <=> result.err # NoError
          /\ result.nilCfg => result.cfg = ZeroConfig
          /\ ~result.nilCfg =>
                /\ result.cfg = config
                /\ validated.called /\ validated.err = NoError
                /\ validated.before = result.cfg

\* C3 witness: validation failed and NewWith returned a nil config with the error.
C3_Witness ==
    /\ result.returned /\ result.nilCfg
    /\ Ran("validate") /\ ~Succeeded("validate")
    /\ result.err.stage = "validate"

\* C4: the stages run in the fixed order, wrap(cache) being present exactly
\* when the TTL is positive; no stage runs twice; only the last stage run can
\* have failed and then NewWith is done; without TOKEN_SIGNING_KEY the main
\* decode fails and neither postprocess nor validate runs.
C4_StageOrder ==
    /\ IsPrefix(StageNames, FullRun(smConfig.SecretCacheTTL > 0))
    /\ \A i \in 1..Len(stages) : ~stages[i].ok => i = Len(stages) /\ pc = "done"
    /\ ~l["TOKEN_SIGNING_KEY"].present =>
          /\ ~Ran("postprocess") /\ ~Ran("validate") /\ ~validated.called
          /\ Ran("decode(main)") => ~Succeeded("decode(main)")

\* C4 witness: TOKEN_SIGNING_KEY is absent, the main decode ran and failed
\* naming the key, and NewWith ended there.
C4_Witness ==
    /\ ~l["TOKEN_SIGNING_KEY"].present
    /\ pc = "done"
    /\ Len(stages) = 5
    /\ stages[Len(stages)] = Stage("decode(main)", FALSE)
    /\ result.err.kind = "MissingRequiredField"
    /\ result.err.name = "TOKEN_SIGNING_KEY"

RequiredKeys ==
    {f.key : f \in {g \in Range(FirebaseFields) \cup Range(ConfigFields) : g.required}}

\* the outcome the end-to-end property names: CodeDuration 2h, the plaintext
\* in TokenSigningKey, every defaulted field at its declared default
EndToEndResult(c) ==
    /\ c.CodeDuration = 7200
    /\ c.TokenSigningKey = <<"a", "b", "c", "1", "2", "3">>
    /\ c.Port = 8080
    /\ c.SessionCookieDuration = 86400
    /\ c.RevokeCheckPeriod = 300
    /\ c.ServerName = <<"D", "i", "a", "g", "n", "o", "s", "i", "s", " ", "V", "e", "r", "i", "f", "i", "c", "a", "t", "i", "o", "n", " ", "S", "e", "r", "v", "e", "r">>
    /\ c.CodeDigits = 8
    /\ c.CollisionRetryCount = 6
    /\ c.AllowedTestAge = 1209600
    /\ c.APIKeyCacheDuration = 300
    /\ c.RateLimit = 60
    /\ c.VerificationTokenDuration = 86400
    /\ c.TokenSigningKeyID = <<"v", "1">>
    /\ c.TokenIssuer = <<"d", "i", "a", "g", "n", "o", "s", "i", "s", "-", "v", "e", "r", "i", "f", "i", "c", "a", "t", "i", "o", "n", "-", "e", "x", "a", "m", "p", "l", "e">>
    /\ c.PublicKeyCacheDuration = 900
    /\ c.CertificateSigningKeyID = <<"v", "1">>
    /\ c.CertificateIssuer = <<"d", "i", "a", "g", "n", "o", "s", "i", "s", "-", "v", "e", "r", "i", "f", "i", "c", "a", "t", "i", "o", "n", "-", "e", "x", "a", "m", "p", "l", "e">>
    /\ c.CertificateAudience = <<"e", "x", "p", "o", "s", "u", "r", "e", "-", "n", "o", "t", "i", "f", "i", "c", "a", "t", "i", "o", "n", "s", "-", "s", "e", "r", "v", "e", "r">>
    /\ c.CertificateDuration = 900
    /\ c.CleanupPeriod = 900
    /\ c.DisabledUserMaxAge = 1209600
    /\ c.VerificationCodeMaxAge = 86400
    /\ c.VerificationTokenMaxAge = 86400
    /\ c.AssetsPath = <<".", "/", "c", "m", "d", "/", "s", "e", "r", "v", "e", "r", "/", "a", "s", "s", "e", "t", "s">>
    /\ c.DevMode = FALSE

\* C5 (as claimed): with a Lookuper holding exactly CODE_DURATION = 2h and
\* TOKEN_SIGNING_KEY = secret://projects/p/secrets/s, and the stub store built,
\* NewWith succeeds with CodeDuration 2h, TokenSigningKey abc123 and the
\* defaults.
C5_ExactEnvSucceeds ==
    l = ExactEnv /\ result.returned /\ Ran("build(mutators)") =>
       ~result.nilCfg /\ EndToEndResult(result.cfg)

\* the two entries of the end-to-end property, a value (plain, or that same
\* reference) for every other required key, and no other key
EndToEndEnv ==
    /\ l["CODE_DURATION"] = Present(<<"2", "h">>)
    /\ l["TOKEN_SIGNING_KEY"] = Present(<<"s", "e", "c", "r", "e", "t", ":", "/", "/", "p", "r", "o", "j", "e", "c", "t", "s", "/", "p", "/", "s", "e", "c", "r", "e", "t", "s", "/", "s">>)
    /\ \A k \in AllKeys \ {"CODE_DURATION", "TOKEN_SIGNING_KEY"} :
          IF k \in RequiredKeys
          THEN /\ l[k].present
               /\ \/ ~HasPrefix(l[k].value, SecretScheme)
                  \/ l[k].value = <<"s", "e", "c", "r", "e", "t", ":", "/", "/", "p", "r", "o", "j", "e", "c", "t", "s", "/", "p", "/", "s", "e", "c", "r", "e", "t", "s", "/", "s">>
          ELSE ~l[k].present

\* C5 (amended): with the two entries, a value for every other required key
\* and no other key, and the stub store built, NewWith succeeds with
\* CodeDuration 2h, TokenSigningKey abc123 and the defaults.
C5_EndToEndWithRequiredKeys ==
    EndToEndEnv /\ result.returned /\ Ran("build(mutators)") =>
       ~result.nilCfg /\ EndToEndResult(result.cfg)

\* C5 witness: such a run has returned its configuration.
C5_Witness ==
    /\ EndToEndEnv
    /\ result.returned /\ ~result.nilCfg
    /\ result.cfg.CodeDuration = 7200
    /\ result.cfg.TokenSigningKey = <<"a", "b", "c", "1", "2", "3">>
    /\ store.calls # <<>>

\* C6 (as claimed): every configuration NewWith returns has a CSRFAuthKey for
\* which CSRFKey succeeds with a key of 32 bytes.
C6_ReturnedConfigHasCSRFKey ==
    result.returned /\ ~result.nilCfg =>
       /\ CSRFKey(result.cfg).err = NoError
       /\ Len(CSRFKey(result.cfg).key) = 32

URLIn == l["FIREBASE_DATABASE_URL"].value

URLOut == result.cfg.Firebase.DatabaseURL

Occurrences(s) == {i \in 1..Len(s) : MatchAt(s, i, Https)}

\* the occurrences one left-to-right pass removes: those not overlapped by an
\* earlier removed one
Removed(s) ==
    CHOOSE S \in SUBSET Occurrences(s) :
       \A i \in Occurrences(s) :
          i \in S <=> ~(\E j \in S : j < i /\ i < j + Len(Https))

Kept(s) == {p \in 1..Len(s) : ~(\E j \in Removed(s) : j <= p /\ p < j + Len(Https))}

\* s without the removed occurrences
WithoutRemoved(s) ==
    [k \in 1..Cardinality(Kept(s)) |->
        s[CHOOSE p \in Kept(s) : Cardinality({q \in Kept(s) : q <= p}) = k]]

RawValue(f) == IF l[f.key].present THEN l[f.key].value ELSE f.default

\* the fields of the main configuration whose raw value is the reference to loc
FieldsNaming(loc) ==
    {f \in Range(FirebaseFields) \cup Range(ConfigFields) :
        (l[f.key].present \/ f.hasDefault) /\ RawValue(f) = SecretScheme \o loc}

CallsOf(loc) == Cardinality({i \in 1..Len(store.calls) : store.calls[i] = loc})

Locators ==
    Range(store.calls) \cup
    {TrimPrefix(RawValue(f), SecretScheme) :
        f \in {g \in Range(FirebaseFields) \cup Range(ConfigFields) :
                  HasPrefix(RawValue(g), SecretScheme)}}

\* C8: wrap(cache) runs only with a TTL > 0; once the mutators are built the
\* store was wrapped exactly when the TTL is > 0 and the single resolver is
\* bound to that (wrapped or unwrapped) store; after a successful main decode
\* with TTL <= 0 the backend was called once per field naming a reference;
\* with TTL > 0 and no time passing, at most once per reference.
C8_CacheIffPositiveTTL ==
    /\ Ran("wrap(cache)") => smConfig.SecretCacheTTL > 0
    /\ Ran("build(mutators)") =>
          /\ Succeeded("wrap(cache)") <=> smConfig.SecretCacheTTL > 0
          /\ Len(mutatorFuncs) = 1
          /\ mutatorFuncs[1].sm.cached <=> smConfig.SecretCacheTTL > 0
          /\ mutatorFuncs[1].sm.cached => mutatorFuncs[1].sm.ttl = smConfig.SecretCacheTTL
    /\ Succeeded("decode(main)") /\ smConfig.SecretCacheTTL <= 0 =>
          \A loc \in Locators : CallsOf(loc) = Cardinality(FieldsNaming(loc))
    /\ Succeeded("decode(main)") /\ smConfig.SecretCacheTTL > 0 /\ latency = 0 =>
          \A loc \in Locators : CallsOf(loc) = 1

\* C8 witness: TTL <= 0, the main decode succeeded, two fields name the same
\* reference and the backend was called twice for it.
C8_Witness ==
    /\ Succeeded("decode(main)")
    /\ smConfig.SecretCacheTTL <= 0
    /\ ~mutatorFuncs[1].sm.cached
    /\ Cardinality(FieldsNaming(<<"p", "r", "o", "j", "e", "c", "t", "s", "/", "p", "/", "s", "e", "c", "r", "e", "t", "s", "/", "s">>)) = 2
    /\ CallsOf(<<"p", "r", "o", "j", "e", "c", "t", "s", "/", "p", "/", "s", "e", "c", "r", "e", "t", "s", "/", "s">>) = 2

\* C9: the meta-config is decoded first, with no mutator, so a secret
\* reference in SECRET_MANAGER stays as written and the backend is not called;
\* the main configuration is decoded second, from the same Lookuper, with
\* exactly one mutator: the resolver bound to the store sm built before.
C9_DecodeMutators ==
    /\ Len(decodes) <= 2
    /\ Len(decodes) >= 1 =>
          /\ decodes[1] = [target |-> "smConfig", l |-> l, fns |-> <<>>]
          /\ l["SECRET_MANAGER"].present /\ HasPrefix(l["SECRET_MANAGER"].value, SecretScheme)
                => smConfig.SecretManagerType = l["SECRET_MANAGER"].value
    /\ Len(decodes) <= 1 => store.calls = <<>>
    /\ Len(decodes) = 2 =>
          /\ decodes[2].target = "config"
          /\ decodes[2].l = decodes[1].l
          /\ sm.made
          /\ sm.cached <=> Succeeded("wrap(cache)")
          /\ decodes[2].fns = <<[kind |-> "Resolver", sm |-> sm]>>

\* C9 witness: the main decode ran with the resolver bound to the wrapped
\* store and resolved a reference through it.
C9_Witness ==
    /\ Len(decodes) = 2
    /\ decodes[1].fns = <<>>
    /\ Len(decodes[2].fns) = 1
    /\ decodes[2].fns[1].sm.cached
    /\ store.calls # <<>>

\* the entries of Validate's check order that are violated in config c
Violated(c) == {i \in 1..Len(ValidateFields(c)) : ValidateFields(c)[i].Var < 0}

\* C10: Validate reports the first violated entry of its check order and no
\* other (SessionCookieDuration first, VerificationTokenMaxAge last), stops
\* there, and leaves the configuration unchanged.
C10_FirstViolationOnly ==
    validated.called =>
       LET c == validated.before
           F == ValidateFields(c)
           V == Violated(c)
       IN  /\ config = c
           /\ V = {} => validated.err = NoError /\ validated.checks = Len(F)
           /\ V # {} =>
                 \E i \in V :
                    /\ \A j \in V : i <= j
                    /\ validated.err.name = F[i].Name
                    /\ validated.err.d = F[i].Var
                    /\ validated.checks = i
           /\ c.SessionCookieDuration < 0 => validated.err.name = "SESSION_DUATION"
           /\ validated.err.name = "VERIFICATION_TOKEN_MAX_AGE" =>
                 /\ c.VerificationTokenMaxAge < 0
                 /\ V = {Len(F)}

\* C10 witness: the third and the eighth entry are violated, the first two are
\* not, and Validate reported the third.
C10_Witness ==
    /\ validated.called
    /\ validated.before.SessionCookieDuration >= 0
    /\ validated.before.RevokeCheckPeriod >= 0
    /\ validated.before.CodeDuration < 0
    /\ validated.before.CleanupPeriod < 0
    /\ validated.err.name = "CODE_DURATION"
    /\ validated.checks = 3

=============================================================================
